---- MODULE Spec2Model ----
(***************************************************************************)
(* addCSSRules (src/index.js): an argument-normalising shim around the     *)
(* host's CSSStyleSheet.insertRule.  The file holds two revisions of the   *)
(* function (lines 1-93 and lines 95-185); both are modelled, each as its  *)
(* own action.  A call is one step: the function is synchronous.           *)
(* Three specifications run the same two actions over different argument   *)
(* sets: Spec (rule building and appending), SpecStyles (style payloads)   *)
(* and SpecSheets (target resolution).                                     *)
(*                                                                         *)
(* JavaScript values are records [t, s, e, id]:                            *)
(*   t = "undefined" | "null" | "string" | "object" | "sheet"              *)
(*   s  the text of a string, e the own enumerable entries <<key, value>>  *)
(*   of a plain object in Object.entries order, id the identity of a       *)
(*   CSSStyleSheet object.                                                 *)
(* A text is the sequence of its lexemes, so "" is <<>>, concatenation is  *)
(* \o and ".a{c:r;}" is <<".a", "{", "c", ":", "r", ";", "}">>.            *)
(***************************************************************************)
EXTENDS Naturals, Sequences, FiniteSets

VARIABLES
  rev,          \* which revision of addCSSRules the page has loaded (1 or 2)
  cssRules,     \* sheet id -> its rule collection, a sequence of rule texts
  styleSheets,  \* document.styleSheets: ids of the sheets attached to the document
  nSheets,      \* number of CSSStyleSheet objects that exist (ids 1..nSheets)
  ncalls,       \* calls made so far
  call,         \* arguments of the last call
  pre,          \* cssRules, styleSheets and nSheets as the last call found them
  result,       \* outcome of the last call: nothing yet, a return value or a throw
  ins,          \* the insertRule invocations of the last call, in order
  documentUsed  \* whether the last call evaluated an expression on document

vars ==
  <<rev, cssRules, styleSheets, nSheets, ncalls, call, pre, result, ins, documentUsed>>

----------------------------------------------------------------------------
(* Bounds *)

MaxCalls == 2
MaxSheets == 3
MaxEntries == 2
MaxProps == 2

SheetIds == 1..MaxSheets

----------------------------------------------------------------------------
(* JavaScript values *)

Undefined == [t |-> "undefined", s |-> <<>>, e |-> <<>>, id |-> 0]
Null == [t |-> "null", s |-> <<>>, e |-> <<>>, id |-> 0]
Str(text) == [t |-> "string", s |-> text, e |-> <<>>, id |-> 0]
Obj(entries) == [t |-> "object", s |-> <<>>, e |-> entries, id |-> 0]
Sheet(i) == [t |-> "sheet", s |-> <<>>, e |-> <<>>, id |-> i]

\* typeof val === "string"
isString(val) == val.t = "string"

\* ToBoolean: undefined, null and "" are falsy, every object is truthy
Truthy(val) ==
  CASE val.t = "undefined" -> FALSE
    [] val.t = "null" -> FALSE
    [] val.t = "string" -> val.s # <<>>
    [] OTHER -> TRUE

\* ToString, as a template literal applies it to ${val}
ToString(val) ==
  CASE val.t = "string" -> val.s
    [] val.t = "undefined" -> <<"undefined">>
    [] val.t = "null" -> <<"null">>
    [] val.t = "sheet" -> <<"[object CSSStyleSheet]">>
    [] OTHER -> <<"[object Object]">>

\* Object.entries(val) for a value that is neither undefined nor null: the own
\* enumerable string-keyed properties; a CSSStyleSheet has none of its own.
ObjectEntries(val) == IF val.t = "object" THEN val.e ELSE <<>>

\* Object.entries(undefined) and Object.entries(null) throw a TypeError
EntriesThrows(val) == val.t \in {"undefined", "null"}

\* What a call hands back: nothing, a number, or the array [sheet, index]
NoValue == [t |-> "undefined", sheet |-> 0, n |-> 0]
Num(i) == [t |-> "number", sheet |-> 0, n |-> i]
Pair(sh, i) == [t |-> "array", sheet |-> sh, n |-> i]

----------------------------------------------------------------------------
(* The host: CSSStyleSheet.insertRule and document.head.appendChild *)

\* Preludes the host's CSS parser accepts in front of a block
ValidPreludes == {".a", ".b", "@m"}

\* The host parses a text as one rule when it is an accepted prelude followed by
\* one brace-delimited block and nothing else; what stands inside the block is
\* never a reason to reject.
ParsesAsRule(text) ==
  /\ Len(text) >= 3
  /\ text[1] \in ValidPreludes
  /\ text[2] = "{"
  /\ text[Len(text)] = "}"
  /\ \A i \in 3..(Len(text) - 1) : text[i] \notin {"{", "}"}

InsertAt(list, index, text) ==
  SubSeq(list, 1, index) \o <<text>> \o SubSeq(list, index + 1, Len(list))

\* An outcome of a step inside a call: the sheet's rule collection after it, whether
\* it threw and what, the value it returned, and the insertRule invocations made.
Step(rules, thrown, err, ret, log) ==
  [rules |-> rules, thrown |-> thrown, err |-> err, ret |-> ret, log |-> log]

\* sheet.insertRule(text, index): throws on a text that is no rule and on an index
\* beyond the end; otherwise puts the rule at index and returns index.
insertRule(list, text, index) ==
  LET inv(ok) == <<[text |-> text, index |-> index, before |-> Len(list), ok |-> ok]>> IN
  IF ~ParsesAsRule(text)
    THEN Step(list, TRUE, "SyntaxError", NoValue, inv(FALSE))
    ELSE IF index > Len(list)
      THEN Step(list, TRUE, "IndexSizeError", NoValue, inv(FALSE))
      ELSE Step(InsertAt(list, index, text), FALSE, "", Num(index), inv(TRUE))

----------------------------------------------------------------------------
(* addRule, both revisions *)

\* A declaration that loses its terminating semicolon
DeclarationUnterminated(entry) == entry[1] \o <<":">> \o ToString(entry[2])

\* `${prop}:${val};`
Declaration(entry) == entry[1] \o <<":">> \o ToString(entry[2]) \o <<";">>

\* let cssText = ""; for (const [prop, val] of entries) cssText += `${prop}:${val};`
RECURSIVE CssText(_)
CssText(entries) ==
  IF entries = <<>> THEN <<>>
  ELSE CssText(SubSeq(entries, 1, Len(entries) - 1)) \o Declaration(entries[Len(entries)])

\* `{${styles}}`
Block(text) == <<"{">> \o text \o <<"}">>

\* A rule put at the front of the collection
InsertIndexFront(list) == 0

\* The index addRule passes to insertRule: sheet.cssRules.length
InsertIndex(list) == Len(list)

\* Revision 1: the text addRule builds from its selector and styles
RuleText1(selectorOrRule, styles) ==
  IF isString(styles) THEN selectorOrRule \o Block(styles.s)
  ELSE IF Truthy(styles) THEN selectorOrRule \o Block(CssText(ObjectEntries(styles)))
  ELSE selectorOrRule

\* Revision 1: addRule returns undefined for an empty selector, else what insertRule
\* returns
addRule1(selectorOrRule, styles, list) ==
  IF selectorOrRule = <<>> THEN Step(list, FALSE, "", NoValue, <<>>)
  ELSE insertRule(list, RuleText1(selectorOrRule, styles), InsertIndex(list))

\* Revision 2: a truthy non-string styles is first turned into its text, and a string
\* styles (the empty one too) is appended as a block
RuleText2(selectorOrRule, styles) ==
  LET text == IF Truthy(styles) /\ ~isString(styles)
                THEN Str(CssText(ObjectEntries(styles)))
                ELSE styles
  IN IF isString(text) THEN selectorOrRule \o Block(text.s) ELSE selectorOrRule

\* Revision 2: addRule returns undefined for an empty selector, else the array
\* [sheet, insertRule's result]
addRule2(selectorOrRule, styles, sheet, list) ==
  IF selectorOrRule = <<>> THEN Step(list, FALSE, "", NoValue, <<>>)
  ELSE LET r == insertRule(list, RuleText2(selectorOrRule, styles), InsertIndex(list))
       IN IF r.thrown THEN r ELSE [r EXCEPT !.ret = Pair(sheet, r.ret.n)]

----------------------------------------------------------------------------
(* addCSSRules, both revisions *)

\* typeof x?.insertRule === "function" && x.cssRules (revision 1), and
\* ... && typeof x?.cssRules !== "undefined" (revision 2): true of a CSSStyleSheet,
\* false of undefined, null, strings and plain style objects
IsSheetLike(val) == val.t = "sheet"

\* a || b on argument values
OrElse(a, b) == IF Truthy(a) THEN a ELSE b

\* A sheet-like second argument that wins over the third
NormalizeSecondWins(stylesOrStyleSheet, styleSheet) ==
  IF IsSheetLike(stylesOrStyleSheet)
    THEN [styles |-> Undefined, styleSheet |-> OrElse(stylesOrStyleSheet, styleSheet)]
    ELSE [styles |-> stylesOrStyleSheet, styleSheet |-> styleSheet]

\* The sheet-like second argument becomes the target unless a third is given, and
\* the styles become undefined
Normalize(stylesOrStyleSheet, styleSheet) ==
  IF IsSheetLike(stylesOrStyleSheet)
    THEN [styles |-> Undefined, styleSheet |-> OrElse(styleSheet, stylesOrStyleSheet)]
    ELSE [styles |-> stylesOrStyleSheet, styleSheet |-> styleSheet]

\* A style element created whether or not a target was given
CreatesSheetAlways(styleSheet) == TRUE

\* styleSheet || document.head.appendChild(document.createElement("style")).sheet:
\* whether the right-hand side is evaluated
CreatesSheet(styleSheet) == ~Truthy(styleSheet)

\* a || b where a ?? b is meant: index 0 is dropped
NullishAsOr(a, b) ==
  IF a.t = "undefined" \/ (a.t = "number" /\ a.n = 0) THEN b ELSE a

\* a ?? b on returned values
Nullish(a, b) == IF a.t = "undefined" THEN b ELSE a

\* a || b on returned values: undefined and 0 are falsy, an array is truthy
Either(a, b) ==
  IF a.t = "undefined" \/ (a.t = "number" /\ a.n = 0) THEN b ELSE a

\* A loop that catches what an entry throws and goes on with the next entry
RECURSIVE Loop1Swallow(_, _, _, _)
Loop1Swallow(entries, list, lastIndex, log) ==
  IF entries = <<>> THEN Step(list, FALSE, "", lastIndex, log)
  ELSE LET r == addRule1(entries[1][1], entries[1][2], list) IN
       Loop1Swallow(Tail(entries), r.rules, Nullish(r.ret, lastIndex), log \o r.log)

\* Revision 1: for (const [selector, styles] of entries)
\*               lastIndex = addRule(selector, styles, sheet) ?? lastIndex
RECURSIVE Loop1(_, _, _, _)
Loop1(entries, list, lastIndex, log) ==
  IF entries = <<>> THEN Step(list, FALSE, "", lastIndex, log)
  ELSE LET r == addRule1(entries[1][1], entries[1][2], list) IN
       IF r.thrown THEN Step(r.rules, TRUE, r.err, NoValue, log \o r.log)
       ELSE Loop1(Tail(entries), r.rules, Nullish(r.ret, lastIndex), log \o r.log)

\* Revision 2: for (const [selector, styles] of entries)
\*               result = addRule(selector, styles, sheet) || result
RECURSIVE Loop2(_, _, _, _, _)
Loop2(entries, sheet, list, res, log) ==
  IF entries = <<>> THEN Step(list, FALSE, "", res, log)
  ELSE LET r == addRule2(entries[1][1], entries[1][2], sheet, list) IN
       IF r.thrown THEN Step(r.rules, TRUE, r.err, NoValue, log \o r.log)
       ELSE Loop2(Tail(entries), sheet, r.rules, Either(r.ret, res), log \o r.log)

\* Revision 1, from "let lastIndex" to the return
Body1(selectorOrRules, styles, sheet, list) ==
  LET r == IF isString(selectorOrRules) THEN addRule1(selectorOrRules.s, styles, list)
           ELSE IF EntriesThrows(selectorOrRules)
             THEN Step(list, TRUE, "TypeError", NoValue, <<>>)
             ELSE Loop1(ObjectEntries(selectorOrRules), list, NoValue, <<>>)
  IN IF r.thrown \/ r.ret.t = "undefined" THEN r
     ELSE [r EXCEPT !.ret = Pair(sheet, r.ret.n)]

\* Revision 2, from "if (isString(selectorOrRules))" to the return
Body2(selectorOrRules, styles, sheet, list) ==
  IF isString(selectorOrRules) THEN addRule2(selectorOrRules.s, styles, sheet, list)
  ELSE IF EntriesThrows(selectorOrRules)
    THEN Step(list, TRUE, "TypeError", NoValue, <<>>)
    ELSE Loop2(ObjectEntries(selectorOrRules), sheet, list, NoValue, <<>>)

----------------------------------------------------------------------------
(* The arguments callers pass *)

\* The sequences of at most n elements of S, none repeated
DistinctSeqs(S, n) ==
  UNION {{q \in [1..k -> S] : \A i, j \in 1..k : i # j => q[i] # q[j]} : k \in 0..n}

Props == {<<"c">>, <<"m">>}
PropValue == Str(<<"r">>)

\* Style objects: property -> value, in the order the caller wrote the properties
StyleObjects ==
  {Obj([i \in 1..Len(ps) |-> <<ps[i], PropValue>>]) : ps \in DistinctSeqs(Props, MaxProps)}

\* CSS declaration texts: "", "c:r;" and "m:r;c:r;"
StyleTexts ==
  {Str(<<>>), Str(<<"c", ":", "r", ";">>),
   Str(<<"m", ":", "r", ";", "c", ":", "r", ";">>)}

Payloads == {Undefined, Null} \cup StyleTexts \cup StyleObjects

\* Selector strings: "", two selectors and a text that is a complete rule
SelectorTexts == {<<>>, <<".a">>, <<".b">>, <<"@m", "{", "}">>}

\* Selector maps: selector -> styles, keys distinct, in the order the caller wrote them
MapsOf(keys, payloads, n) ==
  {Obj(es) : es \in {q \in DistinctSeqs(keys \X payloads, n) :
                      \A i, j \in 1..Len(q) : i # j => q[i][1] # q[j][1]}}

DeclText == Str(<<"c", ":", "r", ";">>)
MapKeys == {<<>>, <<".a">>, <<".b">>}
RuleMaps == MapsOf(MapKeys, {Undefined, DeclText}, MaxEntries)

\* The CSSStyleSheet objects that exist
ExistingSheets == {Sheet(i) : i \in 1..nSheets}

----------------------------------------------------------------------------
(* State machine *)

NoCall == [selectorOrRules |-> Undefined, stylesOrStyleSheet |-> Undefined,
           styleSheet |-> Undefined]
Snapshot == [cssRules |-> cssRules, styleSheets |-> styleSheets, nSheets |-> nSheets]
NotCalled == [kind |-> "none", err |-> "", value |-> NoValue]
Returned(v) == [kind |-> "return", err |-> "", value |-> v]
Threw(e) == [kind |-> "throw", err |-> e, value |-> NoValue]

\* The page: sheet 1 was constructed by the caller and is not attached; the document
\* has no stylesheet, or one (sheet 2) that already holds a rule.
Init ==
  /\ rev \in {1, 2}
  /\ nSheets \in {1, 2}
  /\ styleSheets = IF nSheets = 2 THEN <<2>> ELSE <<>>
  /\ cssRules = [i \in SheetIds |-> IF i = 2 /\ nSheets = 2
                                      THEN <<<<".b", "{", "}">>>> ELSE <<>>]
  /\ ncalls = 0
  /\ call = NoCall
  /\ pre = Snapshot
  /\ result = NotCalled
  /\ ins = <<>>
  /\ documentUsed = FALSE

\* What a call leaves behind: the target sheet (created and attached first when no
\* target was resolved), the rules the body put into it, and the outcome.
Finish(norm, out, target) ==
  /\ cssRules' = [cssRules EXCEPT ![target] = out.rules]
  /\ styleSheets' = IF CreatesSheet(norm.styleSheet)
                      THEN Append(styleSheets, target) ELSE styleSheets
  /\ nSheets' = IF CreatesSheet(norm.styleSheet) THEN nSheets + 1 ELSE nSheets
  /\ result' = IF out.thrown THEN Threw(out.err) ELSE Returned(out.ret)
  /\ ins' = [i \in 1..Len(out.log) |->
               [sheet |-> target, text |-> out.log[i].text, index |-> out.log[i].index,
                before |-> out.log[i].before, ok |-> out.log[i].ok]]
  /\ documentUsed' = CreatesSheet(norm.styleSheet)
  /\ pre' = Snapshot
  /\ ncalls' = ncalls + 1
  /\ UNCHANGED rev

\* Rules that go to the first sheet when a new one was created for them
TargetFirst(norm) == IF CreatesSheet(norm.styleSheet) THEN 1 ELSE norm.styleSheet.id

\* The sheet the call works on
Target(norm) == IF CreatesSheet(norm.styleSheet) THEN nSheets + 1 ELSE norm.styleSheet.id

\* Revision 1 (lines 70-92)
AddCSSRules1(selectorOrRules, stylesOrStyleSheet, styleSheet) ==
  LET norm == Normalize(stylesOrStyleSheet, styleSheet)
      target == Target(norm)
  IN /\ rev = 1
     /\ ncalls < MaxCalls
     /\ CreatesSheet(norm.styleSheet) => nSheets < MaxSheets
     /\ call' = [selectorOrRules |-> selectorOrRules,
                 stylesOrStyleSheet |-> stylesOrStyleSheet, styleSheet |-> styleSheet]
     /\ Finish(norm, Body1(selectorOrRules, norm.styles, target, cssRules[target]), target)

\* Revision 2 (lines 139-185)
AddCSSRules2(selectorOrRules, stylesOrStyleSheet, styleSheet) ==
  LET norm == Normalize(stylesOrStyleSheet, styleSheet)
      target == Target(norm)
  IN /\ rev = 2
     /\ ncalls < MaxCalls
     /\ CreatesSheet(norm.styleSheet) => nSheets < MaxSheets
     /\ call' = [selectorOrRules |-> selectorOrRules,
                 stylesOrStyleSheet |-> stylesOrStyleSheet, styleSheet |-> styleSheet]
     /\ Finish(norm, Body2(selectorOrRules, norm.styles, target, cssRules[target]), target)

\* The calls whose arguments come from the given sets: a first argument, a second
\* that is a style payload (for a selector string only) or another value, a third
Calls(Firsts, Styles, Seconds, Thirds) ==
  \E first \in Firsts :
    \E second \in (IF isString(first) THEN Styles ELSE {}) \cup Seconds, third \in Thirds :
      \/ AddCSSRules1(first, second, third)
      \/ AddCSSRules2(first, second, third)

\* Rule building and appending: every selector string with or without styles, every
\* selector map, into the caller's sheet or with no target
Next ==
  Calls({Str(t) : t \in SelectorTexts} \cup RuleMaps, {DeclText}, {Undefined},
        {Undefined, Sheet(1)})

Spec == Init /\ [][Next]_vars

\* Styles: every selector string and every one-entry selector map with every style
\* payload, into the caller's sheet
NextStyles ==
  Calls({Str(t) : t \in SelectorTexts} \cup MapsOf({<<".a">>}, Payloads, 1),
        Payloads, {Undefined}, {Sheet(1)})

SpecStyles == Init /\ [][NextStyles]_vars

\* Target resolution: a few first arguments of every shape, with every existing
\* sheet or none as second and as third argument
TwoRules == Obj(<<<<<<".a">>, DeclText>>, <<<<".b">>, DeclText>>>>)
SheetFirsts ==
  {Str(<<>>), Str(<<".a">>), Str(<<"@m", "{", "}">>), Obj(<<>>), TwoRules, Undefined, Null}
NextSheets ==
  Calls(SheetFirsts, {DeclText}, {Undefined} \cup ExistingSheets,
        {Undefined} \cup ExistingSheets)

SpecSheets == Init /\ [][NextSheets]_vars

----------------------------------------------------------------------------
(* Vocabulary of the properties, stated on the last call and what it found *)

Called == result.kind # "none"
IsSelectorCall == Called /\ call.selectorOrRules.t = "string"
IsMapCall == Called /\ call.selectorOrRules.t = "object"
MapEntries == call.selectorOrRules.e

\* The sheet the caller named: the third argument, else a sheet given second; 0 if none
ExplicitTarget ==
  IF call.styleSheet.t = "sheet" THEN call.styleSheet.id
  ELSE IF call.stylesOrStyleSheet.t = "sheet" THEN call.stylesOrStyleSheet.id
  ELSE 0

\* The sheet the call was to work on: the one named, else the document's last
TargetSheet ==
  IF ExplicitTarget # 0 THEN ExplicitTarget
  ELSE IF styleSheets # <<>> THEN styleSheets[Len(styleSheets)] ELSE 0

\* The texts the call's successful insertRule invocations put into sheet sh, in order
InsertedInto(sh) ==
  LET Hit(r) == r.ok /\ r.sheet = sh
      hits == SelectSeq(ins, Hit)
  IN [i \in 1..Len(hits) |-> hits[i].text]

DocumentUntouched ==
  styleSheets = pre.styleSheets /\ nSheets = pre.nSheets

NothingChanged == DocumentUntouched /\ cssRules = pre.cssRules

\* The rule text the contract prescribes for a selector and a style payload
RECURSIVE Declarations(_)
Declarations(entries) ==
  IF entries = <<>> THEN <<>>
  ELSE entries[1][1] \o <<":">> \o entries[1][2].s \o <<";">> \o Declarations(Tail(entries))

ContractText(selector, payload) ==
  CASE payload.t = "string" -> selector \o <<"{">> \o payload.s \o <<"}">>
    [] payload.t = "object" -> selector \o <<"{">> \o Declarations(payload.e) \o <<"}">>
    [] OTHER -> selector

\* The entries of a selector map that carry a selector
HasSelector(entry) == entry[1] # <<>>
RuleEntries == SelectSeq(MapEntries, HasSelector)

StartsWith(text, prefix) ==
  Len(text) >= Len(prefix) /\ SubSeq(text, 1, Len(prefix)) = prefix

----------------------------------------------------------------------------
(* C1 *)

\* C1: every successful insertion of a call was made at index = length of the rule
\* collection just before it, so each sheet's collection is what the call found
\* followed by the rules the call inserted, in insertion order; rules already
\* present keep their index and text.
C1_AppendOnly ==
  Called =>
    /\ \A i \in 1..Len(ins) :
         ins[i].ok =>
           /\ ins[i].index = ins[i].before
           /\ ins[i].before =
                Len(pre.cssRules[ins[i].sheet])
                  + Cardinality({j \in 1..(i - 1) : ins[j].ok /\ ins[j].sheet = ins[i].sheet})
    /\ \A sh \in SheetIds : cssRules[sh] = pre.cssRules[sh] \o InsertedInto(sh)

\* A second call has appended two rules to a sheet that already held one
C1_Witness ==
  /\ ncalls = 2
  /\ \E sh \in SheetIds :
       /\ Len(pre.cssRules[sh]) >= 1
       /\ Len(InsertedInto(sh)) = 2
       /\ InsertedInto(sh)[1] # InsertedInto(sh)[2]

----------------------------------------------------------------------------
(* C2 *)

\* C2, as stated: a selector-map call with N >= 1 entries, none of whose rules is
\* rejected, grows the target's collection by exactly N and returns
\* (target, previous length + N - 1).
C2_AsStated ==
  (IsMapCall /\ Len(MapEntries) >= 1 /\ result.kind = "return") =>
    LET before == Len(pre.cssRules[TargetSheet]) IN
    /\ Len(cssRules[TargetSheet]) = before + Len(MapEntries)
    /\ result.value = Pair(TargetSheet, before + Len(MapEntries) - 1)

\* C2, amended: a selector-map call none of whose rules is rejected grows the
\* target's collection by exactly M, the number of its entries whose selector is
\* not empty; those rules sit at the consecutive indices previous length ..
\* previous length + M - 1 in the map's order; the call returns
\* (target, previous length + M - 1) when M >= 1 and nothing when M = 0.
C2_GrowsByRuleEntries ==
  (IsMapCall /\ result.kind = "return") =>
    LET before == Len(pre.cssRules[TargetSheet])
        M == Len(RuleEntries)
    IN /\ Len(cssRules[TargetSheet]) = before + M
       /\ Len(ins) = M
       /\ \A j \in 1..M :
            /\ ins[j].ok /\ ins[j].sheet = TargetSheet /\ ins[j].index = before + j - 1
            /\ StartsWith(cssRules[TargetSheet][before + j], RuleEntries[j][1])
       /\ SubSeq(cssRules[TargetSheet], 1, before) = pre.cssRules[TargetSheet]
       /\ result.value = IF M >= 1 THEN Pair(TargetSheet, before + M - 1) ELSE NoValue

\* A two-entry map, both selectors non-empty, went into a sheet that held a rule
C2_Witness ==
  /\ IsMapCall /\ result.kind = "return"
  /\ Len(MapEntries) = 2 /\ Len(RuleEntries) = 2
  /\ Len(pre.cssRules[TargetSheet]) >= 1
  /\ result.value.t = "array"

----------------------------------------------------------------------------
(* C3 *)

\* C3: a call without a target, made when the document already has a stylesheet,
\* appends its rules to the document's last existing stylesheet and leaves the
\* document's number of stylesheets unchanged.
C3_UsesLastExistingSheet ==
  (Called /\ ExplicitTarget = 0 /\ pre.styleSheets # <<>>) =>
    LET last == pre.styleSheets[Len(pre.styleSheets)] IN
    /\ DocumentUntouched
    /\ \A i \in 1..Len(ins) : ins[i].sheet = last
    /\ cssRules[last] = pre.cssRules[last] \o InsertedInto(last)

----------------------------------------------------------------------------
(* C4 *)

\* C4: a call without a target, made when the document has no stylesheet, creates
\* and attaches exactly one stylesheet, whatever the number of rules; every rule of
\* the call goes into it, no other sheet changes, and it is the sheet of the
\* returned pair.
C4_CreatesOneSheet ==
  (Called /\ ExplicitTarget = 0 /\ pre.styleSheets = <<>>) =>
    /\ nSheets = pre.nSheets + 1
    /\ styleSheets = <<nSheets>>
    /\ \A i \in 1..Len(ins) : ins[i].sheet = nSheets
    /\ cssRules[nSheets] = InsertedInto(nSheets)
    /\ \A sh \in SheetIds \ {nSheets} : cssRules[sh] = pre.cssRules[sh]
    /\ result.value.t = "array" => result.value.sheet = nSheets

\* A two-entry map without a target put both rules into the one sheet just created
C4_Witness ==
  /\ IsMapCall /\ ExplicitTarget = 0 /\ pre.styleSheets = <<>>
  /\ Len(styleSheets) = 1
  /\ Len(cssRules[styleSheets[1]]) = 2
  /\ result.value = Pair(styleSheets[1], 1)

----------------------------------------------------------------------------
(* C5 *)

\* C5: a call given a target stylesheet, as second or as third argument, does not
\* use the document, creates no stylesheet, leaves the document's stylesheet list as
\* it was, and changes the rule collection of no sheet but the target, whether the
\* first argument is a selector or a selector map.
C5_OnlyTheTarget ==
  (Called /\ ExplicitTarget # 0) =>
    /\ ~documentUsed
    /\ DocumentUntouched
    /\ \A i \in 1..Len(ins) : ins[i].sheet = ExplicitTarget
    /\ \A sh \in SheetIds \ {ExplicitTarget} : cssRules[sh] = pre.cssRules[sh]

\* A selector map given a detached sheet as second argument went into that sheet
\* while the document had a sheet of its own
C5_Witness ==
  /\ IsMapCall /\ call.stylesOrStyleSheet = Sheet(1) /\ call.styleSheet = Undefined
  /\ pre.styleSheets # <<>>
  /\ Len(cssRules[1]) = Len(pre.cssRules[1]) + 2
  /\ result.value.t = "array"

----------------------------------------------------------------------------
(* C6 *)

\* C6: a call whose first argument is the empty string or an empty selector map,
\* with or without a target, returns nothing and changes neither a rule collection
\* nor the document's stylesheets.
C6_EmptyIsNoOp ==
  (Called /\ call.selectorOrRules \in {Str(<<>>), Obj(<<>>)}) =>
    /\ result = Returned(NoValue)
    /\ NothingChanged

----------------------------------------------------------------------------
(* C7 *)

\* C7: a call whose first argument is undefined or null returns nothing, throws
\* nothing and changes neither a rule collection nor the document.
C7_AbsentIsNoOp ==
  (Called /\ call.selectorOrRules \in {Undefined, Null}) =>
    /\ result = Returned(NoValue)
    /\ NothingChanged

----------------------------------------------------------------------------
(* C8 *)

\* C8: for a non-empty selector s the text handed to insertRule is s{p1:v1;p2:v2;...}
\* over a style object's entries in their order, s{text} for a string payload and
\* s alone for an absent payload; so a string payload equal to an object's
\* declarations gives the same text.
C8_RuleText ==
  /\ (IsSelectorCall /\ call.selectorOrRules.s # <<>>) =>
       /\ Len(ins) = 1
       /\ ins[1].text = ContractText(call.selectorOrRules.s, call.stylesOrStyleSheet)
  /\ IsMapCall =>
       /\ Len(ins) <= Len(RuleEntries)
       /\ \A j \in 1..Len(ins) :
            ins[j].text = ContractText(RuleEntries[j][1], RuleEntries[j][2])

\* The style object {m: "r", c: "r"} became the rule .a{m:r;c:r;}, the text the
\* string payload "m:r;c:r;" gives
C8_Witness ==
  /\ IsSelectorCall
  /\ call.selectorOrRules = Str(<<".a">>)
  /\ call.stylesOrStyleSheet = Obj(<<<<<<"m">>, PropValue>>, <<<<"c">>, PropValue>>>>)
  /\ Len(ins) = 1 /\ ins[1].ok
  /\ ins[1].text = <<".a", "{", "m", ":", "r", ";", "c", ":", "r", ";", "}">>
  /\ ins[1].text = ContractText(<<".a">>, Str(<<"m", ":", "r", ";", "c", ":", "r", ";">>))

----------------------------------------------------------------------------
(* C9 *)

\* The position among the rule entries of the first whose text the host rejects;
\* 0 if none is rejected
Rejected(entry) == ~ParsesAsRule(ContractText(entry[1], entry[2]))
FirstRejected ==
  IF \E k \in 1..Len(RuleEntries) : Rejected(RuleEntries[k])
    THEN CHOOSE k \in 1..Len(RuleEntries) :
           /\ Rejected(RuleEntries[k])
           /\ \A j \in 1..(k - 1) : ~Rejected(RuleEntries[j])
    ELSE 0

\* C9: when insertRule rejects the rule of the k-th entry of a selector map, the call
\* throws insertRule's error as it is, the rules of the entries before the k-th
\* stay in the target at the indices they were inserted at, and no entry after the
\* k-th is inserted.
C9_NoRollback ==
  (IsMapCall /\ FirstRejected # 0) =>
    LET k == FirstRejected
        before == Len(pre.cssRules[TargetSheet])
    IN /\ result = Threw("SyntaxError")
       /\ Len(ins) = k /\ ~ins[k].ok
       /\ \A j \in 1..(k - 1) :
            /\ ins[j].ok /\ ins[j].index = before + j - 1
            /\ cssRules[TargetSheet][before + j] = ins[j].text
       /\ Len(cssRules[TargetSheet]) = before + k - 1
       /\ SubSeq(cssRules[TargetSheet], 1, before) = pre.cssRules[TargetSheet]

\* The second entry of a map was rejected after the first had been inserted
C9_Witness ==
  /\ IsMapCall /\ Len(RuleEntries) = 2 /\ FirstRejected = 2
  /\ result.kind = "throw"
  /\ Len(cssRules[TargetSheet]) = Len(pre.cssRules[TargetSheet]) + 1

----------------------------------------------------------------------------
(* C10 *)

\* C10: a sheet given as second argument is never a style payload: the first
\* argument is inserted with no payload, into that sheet when no third argument is
\* given, as addCSSRules(x, undefined, sheet) does; and when a third argument is
\* given too, every rule goes to the third argument's sheet, that sheet is the one
\* returned, and the second argument's rule collection is unchanged.
C10_SheetAsSecond ==
  (Called /\ call.stylesOrStyleSheet.t = "sheet") =>
    LET A == call.stylesOrStyleSheet.id
        T == IF call.styleSheet.t = "sheet" THEN call.styleSheet.id ELSE A
    IN /\ \A i \in 1..Len(ins) : ins[i].sheet = T
       /\ cssRules[T] = pre.cssRules[T] \o InsertedInto(T)
       /\ A # T => cssRules[A] = pre.cssRules[A]
       /\ DocumentUntouched
       /\ result.value.t = "array" => result.value.sheet = T
       /\ (IsSelectorCall /\ call.selectorOrRules.s # <<>>) =>
            /\ Len(ins) = 1
            /\ ins[1].text = call.selectorOrRules.s
            /\ result = IF ins[1].ok THEN Returned(Pair(T, Len(pre.cssRules[T])))
                        ELSE Threw("SyntaxError")
       /\ IsMapCall =>
            \A j \in 1..Len(ins) :
              ins[j].text = ContractText(RuleEntries[j][1], RuleEntries[j][2])

\* A complete rule was given with one sheet as second and another as third argument
\* and went into the third
C10_Witness ==
  /\ IsSelectorCall
  /\ call.stylesOrStyleSheet.t = "sheet" /\ call.styleSheet.t = "sheet"
  /\ call.stylesOrStyleSheet.id # call.styleSheet.id
  /\ result = Returned(Pair(call.styleSheet.id, Len(pre.cssRules[call.styleSheet.id])))
  /\ InsertedInto(call.styleSheet.id) = <<call.selectorOrRules.s>>

====
